---------------------------- MODULE Spec2Model ----------------------------
(***************************************************************************)
(* Compareitor: comparison of spreadsheet tables by a derived key.         *)
(*                                                                         *)
(* Two variants of the dashboard are modelled:                             *)
(*   "completo"  src/2.py                        (normalisation flag,      *)
(*               de-duplication flag, 'Archivo' tag, report dictionary)    *)
(*   "basico"    src/dashboard_comparar_excel.py (always normalises,       *)
(*               dedicated 403 branch in the OpenAlex loop)                *)
(*                                                                         *)
(* A Python text is a sequence of one-character strings.  A cell value is  *)
(* a tagged record: text, integer, or the missing marker (float NaN);      *)
(* None is the null key.                                                   *)
(***************************************************************************)
EXTENDS Integers, Sequences, FiniteSets, TLC

VARIABLES
    \* --- normalizar_valor applied to one value
    valor, normalizado, codigo, pcN,
    \* --- generar_clave_prioritaria applied to one row
    row, columnas, normalizar, clave, vistos, columnas_prev, clave_prev, pcK,
    \* --- the comparison run (PROCESO PRINCIPAL)
    archivos, nombres, dfs, columnas_clave, normalizar_datos,
    limpiar_duplicados_final, conteo, coincidencias_por_archivo,
    exclusivos_por_archivo, coincidencias_total, resumen, pc,
    \* --- consultar_openalex_batch
    variante, issn_list, correo_valido, i, resultados, solicitudes,
    respuestas, esperas, avisos, mensaje, devuelto, pcA,
    \* --- one session of the dashboard: upload, column selection, report
    guion, modo, subidos, leidos, mensajes, columnas_comunes,
    columnas_elegidas, n_coincidencias, n_exclusivos, resultados_completos,
    df_resumen, libro, pcS,
    \* --- procesar_fechas applied to one row
    columnas_fecha, fila_fecha, anio_actual, dado, rango_calculado, pcF,
    \* --- sanitizar_nombre_hoja applied to one name
    nombre_logico, nombre_hoja, pcH

varsN == <<valor, normalizado, codigo, pcN>>
varsK == <<row, columnas, normalizar, clave, vistos, columnas_prev, clave_prev,
           pcK>>
varsR == <<archivos, nombres, dfs, columnas_clave, normalizar_datos,
           limpiar_duplicados_final, conteo, coincidencias_por_archivo,
           exclusivos_por_archivo, coincidencias_total, resumen, pc>>
varsA == <<variante, issn_list, correo_valido, i, resultados, solicitudes,
           respuestas, esperas, avisos, mensaje, devuelto, pcA>>
varsS == <<guion, modo, subidos, leidos, mensajes, columnas_comunes,
           columnas_elegidas, n_coincidencias, n_exclusivos,
           resultados_completos, df_resumen, libro, pcS>>
varsF == <<columnas_fecha, fila_fecha, anio_actual, dado, rango_calculado,
           pcF>>
varsH == <<nombre_logico, nombre_hoja, pcH>>
vars == <<varsN, varsK, varsR, varsA, varsS, varsF, varsH>>

-----------------------------------------------------------------------------
(* Bounds of the model.                                                    *)

\* separators (spaces, periods) inserted into a written 8-digit code
MaxInserciones == 2
\* uploaded files in one comparison run
MaxArchivos == 3
\* records over all uploaded files of one run
MaxRegistros == 3
\* ISSN handed to consultar_openalex_batch
MaxISSN == 101

-----------------------------------------------------------------------------
(* Python values.                                                          *)

Texto(s) == [t |-> "str", s |-> s, n |-> 0]
Entero(k) == [t |-> "int", s |-> <<>>, n |-> k]
NaN == [t |-> "nan", s |-> <<>>, n |-> 0]
None == [t |-> "none", s |-> <<>>, n |-> 0]

Minusculas == <<"a","b","c","d","e","f","g","h","i","j","k","l","m",
                "n","o","p","q","r","s","t","u","v","w","x","y","z">>
Mayusculas == <<"A","B","C","D","E","F","G","H","I","J","K","L","M",
                "N","O","P","Q","R","S","T","U","V","W","X","Y","Z">>
Digitos == <<"0","1","2","3","4","5","6","7","8","9">>
Blancos == {" ", "\t", "\n"}

EsDigito(c) == \E k \in 1..Len(Digitos) : Digitos[k] = c

\* str.upper() / str.lower(), character by character
upper_c(c) ==
    IF \E k \in 1..Len(Minusculas) : Minusculas[k] = c
    THEN Mayusculas[CHOOSE k \in 1..Len(Minusculas) : Minusculas[k] = c]
    ELSE c
lower_c(c) ==
    IF \E k \in 1..Len(Mayusculas) : Mayusculas[k] = c
    THEN Minusculas[CHOOSE k \in 1..Len(Mayusculas) : Mayusculas[k] = c]
    ELSE c
upper(s) == [k \in 1..Len(s) |-> upper_c(s[k])]
lower(s) == [k \in 1..Len(s) |-> lower_c(s[k])]

\* str.strip(): whitespace removed at both ends only
RECURSIVE lstrip(_)
lstrip(s) == IF s # <<>> /\ Head(s) \in Blancos THEN lstrip(Tail(s)) ELSE s
RECURSIVE rstrip(_)
rstrip(s) ==
    IF s # <<>> /\ s[Len(s)] \in Blancos
    THEN rstrip(SubSeq(s, 1, Len(s) - 1)) ELSE s
strip(s) == rstrip(lstrip(s))

\* str.replace(ch, ""): every occurrence of one character removed
replace_vacio(s, ch) == SelectSeq(s, LAMBDA c : c # ch)

\* str.isdigit(): non-empty and digits only
isdigit(s) == s # <<>> /\ \A k \in 1..Len(s) : EsDigito(s[k])

\* str(n) of a non-negative integer
RECURSIVE str_int(_)
str_int(k) ==
    IF k < 10 THEN <<Digitos[k + 1]>>
    ELSE str_int(k \div 10) \o <<Digitos[(k % 10) + 1]>>

\* str(valor): text of a cell value ("nan" for the float NaN)
str(v) ==
    CASE v.t = "str" -> v.s
      [] v.t = "int" -> str_int(v.n)
      [] v.t = "nan" -> <<"n","a","n">>
      [] OTHER -> <<"N","o","n","e">>

\* pd.isna(valor)
isna(v) == v.t \in {"nan", "none"}

\* truth value of a Python object: "" and 0 are false, NaN is true
truthy(v) ==
    CASE v.t = "str" -> v.s # <<>>
      [] v.t = "int" -> v.n # 0
      [] v.t = "nan" -> TRUE
      [] OTHER -> FALSE

-----------------------------------------------------------------------------
(* normalizar_valor                                                        *)

\* a variant that forgets to remove the periods
normalizar_valor_sin_puntos(v) ==
    IF isna(v) THEN Texto(<<>>)
    ELSE LET u == replace_vacio(upper(strip(str(v))), " ")
         IN  IF Len(u) = 9 /\ u[5] = "-" THEN Texto(u)
             ELSE IF isdigit(u) /\ Len(u) = 8
                  THEN Texto(SubSeq(u, 1, 4) \o <<"-">> \o SubSeq(u, 5, 8))
                  ELSE Texto(u)

\* a variant that never inserts the hyphen
normalizar_valor_sin_guion(v) ==
    IF isna(v) THEN Texto(<<>>)
    ELSE Texto(replace_vacio(replace_vacio(upper(strip(str(v))), " "), "."))

\* str.replace(ch, "", 1): the first occurrence of one character removed
replace_primero(s, ch) ==
    LET P == { p \in 1..Len(s) : s[p] = ch }
    IN  IF P = {} THEN s
        ELSE LET p == CHOOSE q \in P : \A r \in P : q <= r
             IN  SubSeq(s, 1, p - 1) \o SubSeq(s, p + 1, Len(s))

\* a variant that removes the first space and the first period only
normalizar_valor_un_punto(v) ==
    IF isna(v) THEN Texto(<<>>)
    ELSE LET u == replace_primero(replace_primero(upper(strip(str(v))), " "),
                                  ".")
         IN  IF Len(u) = 9 /\ u[5] = "-" THEN Texto(u)
             ELSE IF isdigit(u) /\ Len(u) = 8
                  THEN Texto(SubSeq(u, 1, 4) \o <<"-">> \o SubSeq(u, 5, 8))
                  ELSE Texto(u)

normalizar_valor(v) ==
    IF isna(v) THEN Texto(<<>>)
    ELSE LET u == replace_vacio(replace_vacio(upper(strip(str(v))), " "), ".")
         IN  IF Len(u) = 9 /\ u[5] = "-" THEN Texto(u)
             ELSE IF isdigit(u) /\ Len(u) = 8
                  THEN Texto(SubSeq(u, 1, 4) \o <<"-">> \o SubSeq(u, 5, 8))
                  ELSE Texto(u)

-----------------------------------------------------------------------------
(* generar_clave_prioritaria                                               *)

\* the test of line 317: `if valor and str(valor).lower() != "nan"`
valor_valido(v) == truthy(v) /\ lower(str(v)) # <<"n","a","n">>

\* the value the loop tests for one column (lines 314-316)
valor_de(fila, col, norm) ==
    IF norm THEN normalizar_valor(fila[col]) ELSE fila[col]

\* a variant that joins every valid value with "|" instead of returning the
\* first one
RECURSIVE generar_clave_unida(_, _, _)
generar_clave_unida(fila, cols, norm) ==
    IF cols = <<>> THEN None
    ELSE LET v == valor_de(fila, Head(cols), norm)
             r == generar_clave_unida(fila, Tail(cols), norm)
         IN  IF valor_valido(v)
             THEN IF r = None THEN v ELSE Texto(str(v) \o <<"|">> \o str(r))
             ELSE r

\* a variant that forgets the "nan" test
RECURSIVE generar_clave_sin_nan(_, _, _)
generar_clave_sin_nan(fila, cols, norm) ==
    IF cols = <<>> THEN None
    ELSE LET v == valor_de(fila, Head(cols), norm)
         IN  IF truthy(v) THEN v
             ELSE generar_clave_sin_nan(fila, Tail(cols), norm)

RECURSIVE generar_clave_prioritaria(_, _, _)
generar_clave_prioritaria(fila, cols, norm) ==
    IF cols = <<>> THEN None
    ELSE LET v == valor_de(fila, Head(cols), norm)
         IN  IF valor_valido(v) THEN v
             ELSE generar_clave_prioritaria(fila, Tail(cols), norm)

\* the successive values of the local `valor` the loop tests, up to and
\* including the one it returns
RECURSIVE valores_examinados(_, _, _)
valores_examinados(fila, cols, norm) ==
    IF cols = <<>> THEN <<>>
    ELSE LET v == valor_de(fila, Head(cols), norm)
         IN  IF valor_valido(v) THEN <<v>>
             ELSE <<v>> \o valores_examinados(fila, Tail(cols), norm)

-----------------------------------------------------------------------------
(* Inputs of the two pure functions.                                       *)

T_nan == <<"n","a","n">>
T_NaN == <<"N","a","N">>
T_1234g5678 == <<"1","2","3","4","-","5","6","7","8">>
T_12345678 == <<"1","2","3","4","5","6","7","8">>
T_1234p5678 == <<"1","2","3","4",".","5","6","7","8">>

Codigos8 == { T_12345678,
              <<"0","0","0","0","0","0","0","0">>,
              <<"2","0","4","9","3","6","3","0">> }
Separadores == {" ", "."}

Canonico(c) == SubSeq(c, 1, 4) \o <<"-">> \o SubSeq(c, 5, 8)

Insertar(s, p, sep) == SubSeq(s, 1, p) \o <<sep>> \o SubSeq(s, p + 1, Len(s))

\* the texts obtained from the texts of S by inserting at most k separators
RECURSIVE ConInserciones(_, _)
ConInserciones(S, k) ==
    IF k = 0 THEN S
    ELSE LET T == ConInserciones(S, k - 1)
         IN  T \cup UNION { { Insertar(s, p, sep) :
                                p \in 0..Len(s), sep \in Separadores } : s \in T }

DigitoDe(ch) == (CHOOSE k \in 1..Len(Digitos) : Digitos[k] = ch) - 1
RECURSIVE ValorNumerico(_)
ValorNumerico(c) ==
    IF c = <<>> THEN 0
    ELSE 10 * ValorNumerico(SubSeq(c, 1, Len(c) - 1)) + DigitoDe(c[Len(c)])

\* the ways an 8-digit code is written in a cell: with or without the hyphen,
\* with separators inserted, or as a number when it has no leading zero
Escrituras(c) ==
    { Texto(e) : e \in ConInserciones({c, Canonico(c)}, MaxInserciones) }
    \cup { Entero(ValorNumerico(c)) : x \in { y \in {c} : y[1] # "0" } }

\* values that are not a written 8-digit code
OtrosValores ==
    { NaN, None, Texto(<<>>), Texto(T_nan), Texto(<<" ">>), Texto(<<".">>),
      Entero(0), Texto(<<"x">>), Texto(<<"1","2","3","4","-","5","6","7","x">>),
      Texto(<<"1","2","3","4","5","6","7","x">>),
      Texto(<<".", "\t", "x">>), Texto(<<"a", "\t", "b">>) }

Columnas == {"ISSN", "EISSN", "Titulo"}

ValoresCelda ==
    { NaN, Texto(<<>>), Texto(T_nan), Texto(T_NaN), Texto(<<".">>), Entero(0),
      Texto(<<"x">>), Texto(T_12345678), Texto(T_1234g5678) }

\* the ordered selections st.multiselect can return: no column twice
ListasDe(S) ==
    { l \in UNION { [1..k -> S] : k \in 0..Cardinality(S) } :
        \A a, b \in 1..Len(l) : a # b => l[a] # l[b] }

Permutaciones(l) ==
    { m \in [1..Len(l) -> {l[k] : k \in 1..Len(l)}] :
        \A a, b \in 1..Len(l) : a # b => m[a] # m[b] }

-----------------------------------------------------------------------------
(* Idle values of the variables a specification does not use.              *)

ReposoN == valor = NaN /\ normalizado = NaN /\ codigo = <<>> /\ pcN = "reposo"
ReposoK ==
    /\ row = <<>> /\ columnas = <<>> /\ normalizar = FALSE /\ clave = None
    /\ vistos = <<>> /\ columnas_prev = <<>> /\ clave_prev = None
    /\ pcK = "reposo"
ReposoR ==
    /\ archivos = <<>> /\ nombres = <<>> /\ dfs = <<>> /\ columnas_clave = <<>>
    /\ normalizar_datos = FALSE /\ limpiar_duplicados_final = FALSE
    /\ conteo = <<>> /\ coincidencias_por_archivo = <<>>
    /\ exclusivos_por_archivo = <<>> /\ coincidencias_total = <<>>
    /\ resumen = <<>> /\ pc = "reposo"
ReposoA ==
    /\ variante = "completo" /\ issn_list = <<>> /\ correo_valido = FALSE
    /\ i = 0 /\ resultados = <<>> /\ solicitudes = <<>> /\ respuestas = <<>>
    /\ esperas = <<>> /\ avisos = <<>> /\ mensaje = "" /\ devuelto = <<>>
    /\ pcA = "reposo"
ReposoS ==
    /\ guion = "completo" /\ modo = "Rapido" /\ subidos = <<>> /\ leidos = <<>>
    /\ mensajes = <<>> /\ columnas_comunes = {} /\ columnas_elegidas = <<>>
    /\ n_coincidencias = <<>> /\ n_exclusivos = <<>>
    /\ resultados_completos = <<>> /\ df_resumen = <<>> /\ libro = <<>>
    /\ pcS = "reposo"
ReposoF ==
    /\ columnas_fecha = {} /\ fila_fecha = <<>> /\ anio_actual = 0
    /\ dado = <<>> /\ rango_calculado = None /\ pcF = "reposo"
ReposoH == nombre_logico = None /\ nombre_hoja = <<>> /\ pcH = "reposo"

-----------------------------------------------------------------------------
(* Specification SpecNorm: normalizar_valor applied to one value.          *)

InitN ==
    /\ \E c \in Codigos8 \cup {<<>>} :
          /\ codigo = c
          /\ valor \in (IF c = <<>> THEN OtrosValores ELSE Escrituras(c))
    /\ normalizado = None
    /\ pcN = "entrada"
    /\ ReposoK /\ ReposoR /\ ReposoA /\ ReposoS
    /\ ReposoF /\ ReposoH

Normalizar ==
    /\ pcN = "entrada"
    /\ normalizado' = normalizar_valor(valor)
    /\ pcN' = "normalizado"
    /\ UNCHANGED <<valor, codigo, varsK, varsR, varsA, varsS,
                   varsF, varsH>>

NextN == Normalizar
SpecNorm == InitN /\ [][NextN]_vars

-----------------------------------------------------------------------------
(* Specification SpecClave: generar_clave_prioritaria applied to one row,  *)
(* then again after the user reorders the selected columns.                *)

InitK ==
    /\ row \in [Columnas -> ValoresCelda]
    /\ columnas \in ListasDe(Columnas)
    /\ normalizar \in BOOLEAN
    /\ clave = None /\ vistos = <<>>
    /\ columnas_prev = <<>> /\ clave_prev = None
    /\ pcK = "fila"
    /\ ReposoN /\ ReposoR /\ ReposoA /\ ReposoS
    /\ ReposoF /\ ReposoH

GenerarClave ==
    /\ pcK = "fila"
    /\ clave' = generar_clave_prioritaria(row, columnas, normalizar)
    /\ vistos' = valores_examinados(row, columnas, normalizar)
    /\ pcK' = "clave"
    /\ UNCHANGED <<row, columnas, normalizar, columnas_prev, clave_prev,
                   varsN, varsR, varsA, varsS,
                   varsF, varsH>>

\* the user selects the same columns in another order; the script runs again
ReordenarColumnas ==
    /\ pcK = "clave"
    /\ \E m \in Permutaciones(columnas) \ {columnas} :
          /\ columnas' = m
          /\ clave' = generar_clave_prioritaria(row, m, normalizar)
          /\ vistos' = valores_examinados(row, m, normalizar)
    /\ columnas_prev' = columnas
    /\ clave_prev' = clave
    /\ pcK' = "reordenada"
    /\ UNCHANGED <<row, normalizar, varsN, varsR, varsA, varsS,
                   varsF, varsH>>

NextK == GenerarClave \/ ReordenarColumnas
SpecClave == InitK /\ [][NextK]_vars

-----------------------------------------------------------------------------
(* Properties of normalizar_valor (SpecNorm).                              *)

\* C4: every way of writing an 8-digit code (hyphen after the 4th digit, no
\* separator, spaces or periods inserted anywhere) is normalised to the same
\* canonical text XXXX-XXXX.
C4_FormaCanonica ==
    (pcN = "normalizado" /\ codigo # <<>>) =>
        normalizado = Texto(Canonico(codigo))

\* "1234.5678" has been normalised to "1234-5678"
C4_Testigo ==
    /\ pcN = "normalizado"
    /\ valor = Texto(T_1234p5678)
    /\ normalizado = Texto(T_1234g5678)

-----------------------------------------------------------------------------
(* Properties of generar_clave_prioritaria (SpecClave).                    *)

ClaveGenerada == pcK \in {"clave", "reordenada"}

\* a cell the key generator must treat as absent: missing, "" or "nan"
Ausente(v) == isna(v) \/ v = Texto(<<>>) \/ v = Texto(T_nan)

\* C5: normalizar_valor turns a missing value into ""; a selected field that
\* is missing, "" or "nan" is skipped and never returned as the key, with and
\* without normalisation; when every selected field is absent the key is null.
C5_AusentesOmitidos ==
    ClaveGenerada =>
        /\ \A k \in 1..Len(vistos) :
              (normalizar /\ isna(row[columnas[k]])) => vistos[k] = Texto(<<>>)
        /\ ~Ausente(clave) \/ clave = None
        /\ \A k \in 1..Len(columnas) :
              (Ausente(row[columnas[k]]) /\ clave # None) => k # Len(vistos)
        /\ (\A k \in 1..Len(columnas) : Ausente(row[columnas[k]]))
              => clave = None

\* without normalisation, "nan" in the first selected column was skipped and
\* the second column gave the key
C5_Testigo ==
    /\ pcK = "clave" /\ ~normalizar
    /\ Len(columnas) = 2
    /\ row[columnas[1]] = Texto(T_nan)
    /\ row[columnas[2]] = Texto(<<"x">>)
    /\ clave = Texto(<<"x">>)

\* a value is present when its text is non-empty and is not the missing
\* marker "nan" in any letter case
Presente(v) == str(v) # <<>> /\ lower(str(v)) # T_nan

RECURSIVE PrimerPresente(_, _, _)
PrimerPresente(fila, cols, norm) ==
    IF cols = <<>> THEN None
    ELSE IF Presente(valor_de(fila, Head(cols), norm))
         THEN valor_de(fila, Head(cols), norm)
         ELSE PrimerPresente(fila, Tail(cols), norm)

\* C6: the key is the (normalised or raw) value of the first selected column,
\* in list order, whose value is present, and is null only when no selected
\* column is present.
C6_PrimeraColumnaPresente ==
    ClaveGenerada => clave = PrimerPresente(row, columnas, normalizar)

-----------------------------------------------------------------------------
(* The comparison run: PROCESO PRINCIPAL, "COMPARACION MULTIPLE".          *)
(*                                                                         *)
(* A table (DataFrame) is a sequence of rows.  A row is a record           *)
(*   origen  position of the uploaded file the row was read from           *)
(*   fila    the row's index label                                         *)
(*   celdas  column name -> cell value                                     *)
(*   clave   the column "__clave__" (while the table has it)               *)
(*   Archivo the column "Archivo" (once the table has it)                  *)

ColumnasRun == {"ISSN", "Titulo"}

\* the rows a file can hold; no row is empty in every column, because
\* leer_excel drops such rows (dropna(how="all"))
CeldasRegistro ==
    { [ISSN |-> Texto(T_1234g5678), Titulo |-> Texto(<<"X">>)],
      [ISSN |-> Texto(T_12345678), Titulo |-> Texto(<<"X">>)],
      [ISSN |-> NaN, Titulo |-> Texto(<<"Y">>)],
      [ISSN |-> Entero(0), Titulo |-> Texto(T_nan)] }

Tablas(t) == UNION { [1..m -> CeldasRegistro] : m \in 0..t }

\* the lists of k tables that hold at most t rows together
RECURSIVE ListasTablas(_, _)
ListasTablas(k, t) ==
    IF k = 0 THEN {<<>>}
    ELSE UNION { { <<tab>> \o resto : resto \in ListasTablas(k - 1, t - Len(tab)) }
                 : tab \in Tablas(t) }

\* file names: "A.xlsx", "B.xlsx", ...
NombreArchivo(a) == <<Mayusculas[a], ".", "x", "l", "s", "x">>

Elementos(l) == { l[k] : k \in 1..Len(l) }

\* a concatenation that puts the later tables first
RECURSIVE Aplanar_inverso(_)
Aplanar_inverso(ll) ==
    IF ll = <<>> THEN <<>> ELSE Aplanar_inverso(Tail(ll)) \o Head(ll)

RECURSIVE Aplanar(_)
Aplanar(ll) == IF ll = <<>> THEN <<>> ELSE Head(ll) \o Aplanar(Tail(ll))

RECURSIVE SumaLen(_)
SumaLen(ll) == IF ll = <<>> THEN 0 ELSE Len(Head(ll)) + SumaLen(Tail(ll))

\* df[columnas_clave] = df[columnas_clave].fillna("")
fillna(celdas, cols) ==
    [c \in DOMAIN celdas |->
        IF c \in Elementos(cols) /\ isna(celdas[c]) THEN Texto(<<>>)
        ELSE celdas[c]]

\* a variant that keeps the rows whose key is null
dropna_clave_sin_efecto(df) == df

\* df.dropna(subset=["__clave__"], inplace=True)
dropna_clave(df) == SelectSeq(df, LAMBDA r : ~isna(r.clave))

\* one turn of the loop `for df in dfs` (lines 943-948)
derivar_claves(df, cols, norm) ==
    dropna_clave(
        [j \in 1..Len(df) |->
            [df[j] EXCEPT
                !.celdas = fillna(df[j].celdas, cols),
                !.clave = generar_clave_prioritaria(
                              fillna(df[j].celdas, cols), cols, norm)]])

\* the (table, row position) pairs of a list of tables
Posiciones(tablas) ==
    UNION { { <<a, j>> : j \in 1..Len(tablas[a]) } : a \in 1..Len(tablas) }

ClavesDe(tablas) == { tablas[p[1]][p[2]].clave : p \in Posiciones(tablas) }

\* a variant that counts the rows that carry the key (count, not nunique)
contar_claves_por_registro(tablas) ==
    [k \in ClavesDe(tablas) |->
        Cardinality({ p \in Posiciones(tablas) :
                        tablas[p[1]][p[2]].clave = k })]

\* a variant that counts the files among the first two uploaded only
contar_claves_dos_primeros(tablas) ==
    [k \in ClavesDe(tablas) |->
        Cardinality({ a \in (1..Len(tablas)) \cap {1, 2} :
                        \E j \in 1..Len(tablas[a]) : tablas[a][j].clave = k })]

\* conteo = claves.groupby("__clave__")["IdxArchivo"].nunique()
contar_claves(tablas) ==
    [k \in ClavesDe(tablas) |->
        Cardinality({ a \in 1..Len(tablas) :
                        \E j \in 1..Len(tablas[a]) : tablas[a][j].clave = k })]

\* a variant that takes a key as shared from three files on
claves_comunes_desde_tres(cnt) == { k \in DOMAIN cnt : cnt[k] > 2 }

\* claves_comunes = conteo[conteo > 1].index
claves_comunes(cnt) == { k \in DOMAIN cnt : cnt[k] > 1 }

\* a variant that also takes the shared keys
claves_exclusivas_todas(cnt) == { k \in DOMAIN cnt : cnt[k] >= 1 }

\* claves_exclusivas = conteo[conteo == 1].index
claves_exclusivas(cnt) == { k \in DOMAIN cnt : cnt[k] = 1 }

\* temp["Archivo"] = nombre
con_archivo(df, nombre) ==
    [j \in 1..Len(df) |->
        [origen |-> df[j].origen, fila |-> df[j].fila, celdas |-> df[j].celdas,
         clave |-> df[j].clave, Archivo |-> nombre]]

\* .drop(columns=["__clave__"])
drop_clave(df) ==
    [j \in 1..Len(df) |->
        [origen |-> df[j].origen, fila |-> df[j].fila, celdas |-> df[j].celdas,
         Archivo |-> df[j].Archivo]]

\* a variant that keeps the last row of each (Archivo, __clave__) pair
RECURSIVE drop_duplicates_ultimo(_)
drop_duplicates_ultimo(df) ==
    IF df = <<>> THEN <<>>
    ELSE LET r == Head(df)
             resto == drop_duplicates_ultimo(Tail(df))
         IN  IF \E j \in 2..Len(df) :
                    df[j].Archivo = r.Archivo /\ df[j].clave = r.clave
             THEN resto ELSE <<r>> \o resto

\* df.drop_duplicates(subset=["Archivo", "__clave__"], keep="first")
RECURSIVE drop_duplicates(_)
drop_duplicates(df) ==
    IF df = <<>> THEN <<>>
    ELSE LET antes == drop_duplicates(SubSeq(df, 1, Len(df) - 1))
             r == df[Len(df)]
         IN  IF \E j \in 1..(Len(df) - 1) :
                    df[j].Archivo = r.Archivo /\ df[j].clave = r.clave
             THEN antes ELSE Append(antes, r)

-----------------------------------------------------------------------------
(* Specification Spec: one comparison run over two or more files.          *)

Init ==
    /\ \E k \in 2..MaxArchivos :
          \E tablas \in ListasTablas(k, MaxRegistros) :
             /\ archivos =
                   [a \in 1..k |->
                      [j \in 1..Len(tablas[a]) |->
                         [origen |-> a, fila |-> j, celdas |-> tablas[a][j],
                          clave |-> None]]]
             /\ nombres = [a \in 1..k |-> NombreArchivo(a)]
    /\ dfs = archivos
    /\ columnas_clave = <<>>
    /\ normalizar_datos = TRUE
    /\ limpiar_duplicados_final = FALSE
    /\ conteo = <<>>
    /\ coincidencias_por_archivo = <<>>
    /\ exclusivos_por_archivo = <<>>
    /\ coincidencias_total = <<>>
    /\ resumen = <<>>
    /\ pc = "cargado"
    /\ ReposoN /\ ReposoK /\ ReposoA /\ ReposoS
    /\ ReposoF /\ ReposoH

\* lines 931-948: the user selects the key columns (a non-empty list of the
\* common columns) and every table gets its "__clave__" column
GenerarClaves ==
    /\ pc = "cargado"
    /\ \E cols \in ListasDe(ColumnasRun) \ {<<>>}, norm \in BOOLEAN :
          /\ columnas_clave' = cols
          /\ normalizar_datos' = norm
          /\ dfs' = [a \in 1..Len(dfs) |-> derivar_claves(dfs[a], cols, norm)]
    /\ pc' = "claves"
    /\ UNCHANGED <<archivos, nombres, limpiar_duplicados_final, conteo,
                   coincidencias_por_archivo, exclusivos_por_archivo,
                   coincidencias_total, resumen, varsN, varsK, varsA, varsS,
                   varsF, varsH>>

\* lines 950-958: the key index
IndexarClaves ==
    /\ pc = "claves"
    /\ conteo' = contar_claves(dfs)
    /\ pc' = "indexado"
    /\ UNCHANGED <<archivos, nombres, dfs, columnas_clave, normalizar_datos,
                   limpiar_duplicados_final, coincidencias_por_archivo,
                   exclusivos_por_archivo, coincidencias_total, resumen,
                   varsN, varsK, varsA, varsS,
                   varsF, varsH>>

\* lines 961-972: the two partitions, source by source
Particionar ==
    /\ pc = "indexado"
    /\ coincidencias_por_archivo' =
          [a \in 1..Len(dfs) |->
             con_archivo(
                SelectSeq(dfs[a], LAMBDA r : r.clave \in claves_comunes(conteo)),
                nombres[a])]
    /\ exclusivos_por_archivo' =
          [a \in 1..Len(dfs) |->
             drop_clave(con_archivo(
                SelectSeq(dfs[a],
                          LAMBDA r : r.clave \in claves_exclusivas(conteo)),
                nombres[a]))]
    /\ pc' = "particionado"
    /\ UNCHANGED <<archivos, nombres, dfs, columnas_clave, normalizar_datos,
                   limpiar_duplicados_final, conteo, coincidencias_total,
                   resumen, varsN, varsK, varsA, varsS,
                   varsF, varsH>>

\* lines 974-984: the shared collection, de-duplicated when the flag is set
ConsolidarCoincidencias ==
    /\ pc = "particionado"
    /\ \E flag \in BOOLEAN :
          /\ limpiar_duplicados_final' = flag
          /\ coincidencias_total' =
                drop_clave(IF flag
                           THEN drop_duplicates(Aplanar(coincidencias_por_archivo))
                           ELSE Aplanar(coincidencias_por_archivo))
    /\ pc' = "consolidado"
    /\ UNCHANGED <<archivos, nombres, dfs, columnas_clave, normalizar_datos,
                   conteo, coincidencias_por_archivo, exclusivos_por_archivo,
                   resumen, varsN, varsK, varsA, varsS,
                   varsF, varsH>>

\* lines 986-1017: the counts of the summary
Resumir ==
    /\ pc = "consolidado"
    /\ resumen' = [archivos_cargados |-> Len(archivos),
                   coincidencias |-> Len(coincidencias_total),
                   exclusivos |-> SumaLen(exclusivos_por_archivo),
                   total_registros |-> SumaLen(dfs)]
    /\ pc' = "terminado"
    /\ UNCHANGED <<archivos, nombres, dfs, columnas_clave, normalizar_datos,
                   limpiar_duplicados_final, conteo, coincidencias_por_archivo,
                   exclusivos_por_archivo, coincidencias_total,
                   varsN, varsK, varsA, varsS,
                   varsF, varsH>>

Next ==
    \/ GenerarClaves
    \/ IndexarClaves
    \/ Particionar
    \/ ConsolidarCoincidencias
    \/ Resumir

Spec == Init /\ [][Next]_vars

-----------------------------------------------------------------------------
(* Properties of the comparison run (Spec).                                *)

\* the identity of a row: the file it was read from and its index label
Id(r) == <<r.origen, r.fila>>

\* how many rows of a table are the row with identity id
Veces(df, id) == Cardinality({ j \in 1..Len(df) : Id(df[j]) = id })

RECURSIVE VecesEnTodas(_, _)
VecesEnTodas(tablas, id) ==
    IF tablas = <<>> THEN 0
    ELSE Veces(Head(tablas), id) + VecesEnTodas(Tail(tablas), id)

\* the rows that carry a non-null key once the keys are derived
Sobrevivientes ==
    { dfs[p[1]][p[2]] : p \in { q \in Posiciones(dfs) :
                                   dfs[q[1]][q[2]].clave # None } }

\* the files in which some row carries key k
FuentesDe(k) ==
    { a \in 1..Len(dfs) : \E j \in 1..Len(dfs[a]) : dfs[a][j].clave = k }

\* C1: with the de-duplication flag off, every record with a non-null key is
\* exactly once in exactly one output collection: the shared collection or
\* the exclusive collection of its own file, never in both and never in the
\* exclusive collection of another file.
C1_ParticionEstricta ==
    (pc = "terminado" /\ ~limpiar_duplicados_final) =>
        \A r \in Sobrevivientes :
            /\ Veces(coincidencias_total, Id(r))
                 + VecesEnTodas(exclusivos_por_archivo, Id(r)) = 1
            /\ \A b \in 1..Len(exclusivos_por_archivo) :
                  b # r.origen => Veces(exclusivos_por_archivo[b], Id(r)) = 0
            /\ \A j \in 1..Len(coincidencias_total) :
                  Id(coincidencias_total[j]) = Id(r) =>
                      coincidencias_total[j].Archivo = nombres[r.origen]

\* a run over three files ended with a record in the shared collection and a
\* record in an exclusive collection
C1_Testigo ==
    /\ pc = "terminado" /\ ~limpiar_duplicados_final
    /\ Len(archivos) = 3
    /\ coincidencias_total # <<>>
    /\ \E b \in 1..Len(exclusivos_por_archivo) : exclusivos_por_archivo[b] # <<>>

\* C2: a key is shared iff at least two distinct files contain it and
\* exclusive iff exactly one does, whatever the number of rows that carry it;
\* the rows of a key land in the collection of that class.
C2_ClasePorFuentes ==
    pc \in {"particionado", "consolidado", "terminado"} =>
        /\ \A k \in ClavesDe(dfs) :
              /\ k \in claves_comunes(conteo) <=> Cardinality(FuentesDe(k)) >= 2
              /\ k \in claves_exclusivas(conteo) <=> Cardinality(FuentesDe(k)) = 1
        /\ \A r \in Sobrevivientes :
              /\ Veces(coincidencias_por_archivo[r.origen], Id(r)) = 1
                    <=> Cardinality(FuentesDe(r.clave)) >= 2
              /\ Veces(exclusivos_por_archivo[r.origen], Id(r)) = 1
                    <=> Cardinality(FuentesDe(r.clave)) = 1

\* two rows of one file carry the same key, no other file has it, and both
\* rows are in that file's exclusive collection
C2_Testigo ==
    /\ pc = "terminado"
    /\ \E a \in 1..Len(dfs) :
          /\ Len(dfs[a]) >= 2
          /\ dfs[a][1].clave = dfs[a][2].clave
          /\ FuentesDe(dfs[a][1].clave) = {a}
          /\ Veces(exclusivos_por_archivo[a], Id(dfs[a][1])) = 1
          /\ Veces(exclusivos_por_archivo[a], Id(dfs[a][2])) = 1

\* the uploaded records for which no selected column gives a key
SinClave ==
    { archivos[p[1]][p[2]] : p \in { q \in Posiciones(archivos) :
        generar_clave_prioritaria(
            fillna(archivos[q[1]][q[2]].celdas, columnas_clave),
            columnas_clave, normalizar_datos) = None } }

\* C3: a record whose derived key is null is dropped before indexing and is
\* in no output collection; with the de-duplication flag off, the shared
\* records plus all exclusive records are the input records minus the dropped
\* ones.
C3_SinClaveDescartados ==
    pc = "terminado" =>
        /\ \A r \in SinClave :
              /\ VecesEnTodas(dfs, Id(r)) = 0
              /\ r.clave \notin DOMAIN conteo
              /\ Veces(coincidencias_total, Id(r)) = 0
              /\ VecesEnTodas(exclusivos_por_archivo, Id(r)) = 0
        /\ ~limpiar_duplicados_final =>
              Len(coincidencias_total) + SumaLen(exclusivos_por_archivo)
                 = SumaLen(archivos) - Cardinality(SinClave)

\* a run ended in which one record was dropped and the others were output
C3_Testigo ==
    /\ pc = "terminado" /\ ~limpiar_duplicados_final
    /\ Cardinality(SinClave) = 1
    /\ SumaLen(archivos) = 3
    /\ Len(coincidencias_total) + SumaLen(exclusivos_por_archivo) = 2

\* the scenario of C8: A = [{ISSN: "1234-5678", Title: "X"}],
\* B = [{ISSN: "12345678", Title: "X"}], selected columns [ISSN], normalised
EscenarioC8 ==
    /\ Len(archivos) = 2
    /\ Len(archivos[1]) = 1 /\ Len(archivos[2]) = 1
    /\ archivos[1][1].celdas =
          [ISSN |-> Texto(T_1234g5678), Titulo |-> Texto(<<"X">>)]
    /\ archivos[2][1].celdas =
          [ISSN |-> Texto(T_12345678), Titulo |-> Texto(<<"X">>)]
    /\ columnas_clave = <<"ISSN">>
    /\ normalizar_datos

\* C8: in that scenario the run yields one shared pair (one record of A and
\* one of B), no exclusive record, and both records carry the key
\* "1234-5678".
C8_ParCompartido ==
    (pc = "terminado" /\ EscenarioC8) =>
        /\ Len(coincidencias_total) = 2
        /\ Id(coincidencias_total[1]) = <<1, 1>>
        /\ Id(coincidencias_total[2]) = <<2, 1>>
        /\ exclusivos_por_archivo = <<<<>>, <<>>>>
        /\ dfs[1][1].clave = Texto(T_1234g5678)
        /\ dfs[2][1].clave = Texto(T_1234g5678)
        /\ conteo = (Texto(T_1234g5678) :> 2)

\* the scenario has run to its end
C8_Testigo ==
    /\ pc = "terminado" /\ EscenarioC8
    /\ Len(coincidencias_total) = 2
    /\ resumen.exclusivos = 0

\* the row identities (file, index label) in strictly increasing order
EnOrden(df) ==
    \A p, q \in 1..Len(df) :
        p < q => \/ df[p].origen < df[q].origen
                 \/ df[p].origen = df[q].origen /\ df[p].fila < df[q].fila

SinDeduplicar == Aplanar(coincidencias_por_archivo)

\* row j is the first of SinDeduplicar with its (Archivo, key) pair
PrimeroDeSuPar(j) ==
    ~\E h \in 1..(j - 1) :
        /\ SinDeduplicar[h].Archivo = SinDeduplicar[j].Archivo
        /\ SinDeduplicar[h].clave = SinDeduplicar[j].clave

Salidas ==
    Elementos(coincidencias_total)
        \cup UNION { Elementos(exclusivos_por_archivo[a])
                       : a \in 1..Len(exclusivos_por_archivo) }

\* C18: every record of an output collection holds in each input column the
\* value it had when it was read, the missing marker included.
C18_CamposOriginalesIntactos ==
    pc = "terminado" =>
        \A r \in Salidas : r.celdas = archivos[r.origen][r.fila].celdas

-----------------------------------------------------------------------------
(* consultar_openalex_batch.                                               *)
(*                                                                         *)
(* solicitudes, respuestas, esperas and avisos are parallel logs: entry k  *)
(* is the k-th requests.get, the response it got, the seconds slept before *)
(* the loop went on, and the message shown to the user for it.             *)

batch_size == 50

Variantes == {"completo", "basico"}

\* non-success status codes other than the rate limit
CodigosError == {403, 404, 500}

\* what requests.get / r.json() can produce
RespuestaHTTP(c, m) == [exc |-> "", status |-> c, items |-> m]
Excepcion(causa) == [exc |-> causa, status |-> 0, items |-> 0]

Min(a, b) == IF a < b THEN a ELSE b

\* a slicing that drops an incomplete last batch
lote_en_sin_resto(lista, ini) ==
    IF ini + batch_size > Len(lista) THEN <<>>
    ELSE SubSeq(lista, ini + 1, ini + batch_size)

\* lote = issn_list[i:i + batch_size]
lote_en(lista, ini) == SubSeq(lista, ini + 1, Min(ini + batch_size, Len(lista)))

\* a variant that leaves the loop on server errors too
rompe_bucle_en_500(var, c) == c = 403 \/ c = 500

\* `break`: only the variant with the dedicated 403 branch leaves the loop
rompe_bucle(var, c) == var = "basico" /\ c = 403

\* the message shown for a non-success status
aviso_estado(var, c) ==
    IF var = "basico" THEN (IF c = 403 THEN "error" ELSE "warning")
    ELSE "ninguno"

\* a `continue` that would repeat the iteration
continuar_mismo_lote(ini) == ini

\* `continue`: the for loop takes the next value of range(0, n, batch_size)
continuar(ini) == ini + batch_size

Registrar(resp, espera, aviso) ==
    /\ solicitudes' = Append(solicitudes,
                             [inicio |-> i, lote |-> lote_en(issn_list, i)])
    /\ respuestas' = Append(respuestas, resp)
    /\ esperas' = Append(esperas, espera)
    /\ avisos' = Append(avisos, aviso)

EnBucle == pcA = "bucle" /\ i < Len(issn_list)

\* `if not issn_list` / `if not correo_openalex or "@" not in correo_openalex`:
\* correo is the outcome of the e-mail test
rechaza_solo_vacia(lista, correo) == lista = <<>>

rechaza(lista, correo) == lista = <<>> \/ ~correo

\* the message of the early return that fires: the empty list is tested first
mensaje_rechazo(lista) == IF lista = <<>> THEN "warning" ELSE "error"

\* the message shown after the loop
mensaje_final(var, res) ==
    IF var = "basico" /\ res = <<>> THEN "warning" ELSE "success"

InitA ==
    /\ variante \in Variantes
    /\ \E n \in 0..MaxISSN : issn_list = [k \in 1..n |-> k]
    /\ correo_valido \in BOOLEAN
    /\ i = 0
    /\ resultados = <<>> /\ solicitudes = <<>> /\ respuestas = <<>>
    /\ esperas = <<>> /\ avisos = <<>> /\ mensaje = "" /\ devuelto = <<>>
    /\ pcA = "inicio"
    /\ ReposoN /\ ReposoK /\ ReposoR /\ ReposoS
    /\ ReposoF /\ ReposoH

\* the two early returns: no ISSN (st.warning), or no valid e-mail (st.error)
Rechazar ==
    /\ pcA = "inicio"
    /\ rechaza(issn_list, correo_valido)
    /\ mensaje' = mensaje_rechazo(issn_list)
    /\ devuelto' = <<>>
    /\ pcA' = "rechazado"
    /\ UNCHANGED <<variante, issn_list, correo_valido, i, resultados,
                   solicitudes, respuestas, esperas, avisos,
                   varsN, varsK, varsR, varsS,
                   varsF, varsH>>

Comenzar ==
    /\ pcA = "inicio"
    /\ ~rechaza(issn_list, correo_valido)
    /\ pcA' = "bucle"
    /\ UNCHANGED <<variante, issn_list, correo_valido, i, resultados,
                   solicitudes, respuestas, esperas, avisos, mensaje, devuelto,
                   varsN, varsK, varsR, varsS,
                   varsF, varsH>>

\* status 200 with a well-formed body: the items are appended, sleep(1)
LoteExitoso ==
    /\ EnBucle
    /\ \E m \in 0..1 :
          /\ Registrar(RespuestaHTTP(200, m), 1, "ninguno")
          /\ resultados' = resultados \o [k \in 1..m |-> [inicio |-> i]]
    /\ i' = i + batch_size
    /\ UNCHANGED <<variante, issn_list, correo_valido, devuelto, pcA,
                   mensaje, varsN, varsK, varsR, varsS,
                   varsF, varsH>>

\* status 429: sleep(5); continue
LoteLimiteTasa ==
    /\ EnBucle
    /\ Registrar(RespuestaHTTP(429, 0), 5,
                 IF variante = "basico" THEN "warning" ELSE "ninguno")
    /\ i' = continuar(i)
    /\ UNCHANGED <<variante, issn_list, correo_valido, resultados, devuelto,
                   pcA, mensaje, varsN, varsK, varsR, varsS,
                   varsF, varsH>>

\* status 403 in the variant that has `break` for it
LoteProhibido ==
    /\ EnBucle
    /\ \E c \in CodigosError :
          /\ rompe_bucle(variante, c)
          /\ Registrar(RespuestaHTTP(c, 0), 0, aviso_estado(variante, c))
    /\ pcA' = "salida"
    /\ UNCHANGED <<variante, issn_list, correo_valido, i, resultados,
                   devuelto, mensaje, varsN, varsK, varsR, varsS,
                   varsF, varsH>>

\* any other non-success status: sleep(1) and on to the next batch
LoteOtroError ==
    /\ EnBucle
    /\ \E c \in CodigosError :
          /\ ~rompe_bucle(variante, c)
          /\ Registrar(RespuestaHTTP(c, 0), 1, aviso_estado(variante, c))
    /\ i' = i + batch_size
    /\ UNCHANGED <<variante, issn_list, correo_valido, resultados, devuelto,
                   pcA, mensaje, varsN, varsK, varsR, varsS,
                   varsF, varsH>>

\* requests.get raises (timeout, connection) or r.json() raises on a 200 with
\* a malformed body: st.error, no sleep, on to the next batch
LoteExcepcion ==
    /\ EnBucle
    /\ \E causa \in {"timeout", "json"} :
          Registrar(Excepcion(causa), 0, "error")
    /\ i' = i + batch_size
    /\ UNCHANGED <<variante, issn_list, correo_valido, resultados, devuelto,
                   pcA, mensaje, varsN, varsK, varsR, varsS,
                   varsF, varsH>>

\* the loop is over (range exhausted, or break): return pd.DataFrame(resultados)
Devolver ==
    /\ pcA = "salida" \/ (pcA = "bucle" /\ i >= Len(issn_list))
    /\ devuelto' = resultados
    /\ mensaje' = mensaje_final(variante, resultados)
    /\ pcA' = "devuelto"
    /\ UNCHANGED <<variante, issn_list, correo_valido, i, resultados,
                   solicitudes, respuestas, esperas, avisos,
                   varsN, varsK, varsR, varsS,
                   varsF, varsH>>

NextA ==
    \/ Rechazar
    \/ Comenzar
    \/ LoteExitoso
    \/ LoteLimiteTasa
    \/ LoteProhibido
    \/ LoteOtroError
    \/ LoteExcepcion
    \/ Devolver

SpecAPI == InitA /\ [][NextA]_vars

\* the script runs on: a step of the function that can be taken is taken
\* (requests.get has timeout=60, time.sleep returns)
SpecAPIJusta == SpecAPI /\ WF_vars(NextA)

-----------------------------------------------------------------------------
(* Properties of consultar_openalex_batch (SpecAPI).                       *)

\* the start offsets of the batches of the list
Inicios == { ini \in 0..Len(issn_list) :
               ini < Len(issn_list) /\ ini % batch_size = 0 }

\* C9: a batch that receives a rate-limit response (429) is sent again
\* before the client moves on; its keys are not abandoned.
C9_ReintentaLote429 ==
    \A k \in 1..Len(respuestas) :
        respuestas[k].status = 429 =>
            /\ k < Len(solicitudes) =>
                  solicitudes[k + 1].inicio = solicitudes[k].inicio
            /\ pcA = "devuelto" => k < Len(solicitudes)

\* request k ended with a non-success status other than 429, or an exception
Fallo(k) ==
    \/ respuestas[k].exc # ""
    \/ respuestas[k].status \in CodigosError

\* after request k its batch is not requested again and every later batch of
\* the list is requested
SigueTras(k) ==
    /\ \A m \in (k + 1)..Len(solicitudes) :
          solicitudes[m].inicio # solicitudes[k].inicio
    /\ \A ini \in Inicios :
          ini > solicitudes[k].inicio =>
              \E m \in (k + 1)..Len(solicitudes) : solicitudes[m].inicio = ini

\* C10 (as stated): after a batch that ends with any non-success status
\* other than 429 (403, 404, 500, ...) or with an exception, the batch is
\* skipped and every remaining batch is still requested.
C10_NingunFalloDetiene ==
    pcA = "devuelto" =>
        \A k \in 1..Len(solicitudes) : Fallo(k) => SigueTras(k)

\* the status for which the loop of the variant has a `break`
Prohibido(k) == variante = "basico" /\ respuestas[k].status = 403

\* C10 (amended): after a failure other than a 403 in the variant with the
\* dedicated 403 branch, the batch is not requested again and the next batch
\* of the list is requested; in that variant a 403 ends the loop and no later
\* batch is requested; when no response is such a 403, every batch after a
\* failed one is requested.
C10_SoloEl403Detiene ==
    pcA = "devuelto" =>
        \A k \in 1..Len(solicitudes) :
            /\ (Fallo(k) /\ ~Prohibido(k)) =>
                  /\ \A m \in (k + 1)..Len(solicitudes) :
                        solicitudes[m].inicio # solicitudes[k].inicio
                  /\ solicitudes[k].inicio + batch_size \in Inicios =>
                        /\ k < Len(solicitudes)
                        /\ solicitudes[k + 1].inicio
                              = solicitudes[k].inicio + batch_size
                  /\ (\A m \in 1..Len(solicitudes) : ~Prohibido(m))
                        => SigueTras(k)
            /\ Prohibido(k) => k = Len(solicitudes)

\* in the variant with the 403 branch, a 500 and then an exception were
\* followed by the request of the third batch
C10_Testigo ==
    /\ pcA = "devuelto" /\ variante = "basico"
    /\ Len(solicitudes) = 3
    /\ respuestas[1].status = 500
    /\ respuestas[2].exc = "timeout"
    /\ solicitudes[3].inicio = 2 * batch_size

\* C11: every failed batch (HTTP error status, timeout or network exception,
\* malformed body) produces a per-batch failure message, and the records of
\* the earlier successful batches are all in the returned result.
C11_FalloReportadoYParcialesConservados ==
    /\ \A k \in 1..Len(respuestas) :
          Fallo(k) => avisos[k] \in {"error", "warning"}
    /\ pcA = "devuelto" =>
          \A k \in 1..Len(respuestas) :
              respuestas[k].status = 200 =>
                  Cardinality({ m \in 1..Len(devuelto) :
                                  devuelto[m].inicio = solicitudes[k].inicio })
                      = respuestas[k].items

\* the run was refused by one of the early returns
Rechazado == pcA = "rechazado"

\* C12 (as stated): with a missing or invalid e-mail, for any key list, no
\* request is issued, the refusal is shown as an error and the result is
\* empty.
C12_RechazoComoError ==
    ~correo_valido =>
        /\ solicitudes = <<>>
        /\ pcA \in {"inicio", "rechazado"}
        /\ Rechazado => mensaje = "error" /\ devuelto = <<>>

\* C12 (amended): with a missing or invalid e-mail no request is issued for
\* any key list and the result is empty; the refusal is shown as an error
\* when the list is non-empty, while for an empty list the earlier test
\* returns with the warning about no valid ISSN.
C12_SinCorreoSinSolicitudes ==
    ~correo_valido =>
        /\ solicitudes = <<>>
        /\ pcA \in {"inicio", "rechazado"}
        /\ Rechazado =>
              /\ devuelto = <<>>
              /\ mensaje = (IF issn_list = <<>> THEN "warning" ELSE "error")

\* a list of more than one batch was refused for its e-mail
C12_Testigo ==
    /\ Rechazado /\ ~correo_valido
    /\ Len(issn_list) > batch_size
    /\ mensaje = "error" /\ solicitudes = <<>> /\ devuelto = <<>>

\* ceil(n / batch_size)
total_lotes(n) == (n + batch_size - 1) \div batch_size

\* the batches requested so far, one after another
LotesUnidos == Aplanar([k \in 1..Len(solicitudes) |-> solicitudes[k].lote])

\* the batches requested so far are the first consecutive slices of the list
LotesSonPrefijo ==
    /\ \A k \in 1..Len(solicitudes) :
          /\ solicitudes[k].inicio = (k - 1) * batch_size
          /\ Len(solicitudes[k].lote) \in 1..batch_size
    /\ Len(LotesUnidos) <= Len(issn_list)
    /\ LotesUnidos = SubSeq(issn_list, 1, Len(LotesUnidos))

\* C13 (as stated): a call on n keys dispatches ceil(n / batch_size)
\* requests, consecutive slices in list order of at most batch_size keys,
\* every key in exactly one batch.
C13_TodosLosLotes ==
    (pcA = "devuelto" /\ correo_valido) =>
        /\ Len(solicitudes) = total_lotes(Len(issn_list))
        /\ LotesSonPrefijo
        /\ LotesUnidos = issn_list

\* C13 (amended): the requests dispatched are consecutive slices of the list
\* in list order, each of 1..batch_size keys, no key in two batches; when the
\* e-mail is accepted and the loop is not left by the 403 `break`, there are
\* ceil(n / batch_size) of them and every key is in exactly one batch; after
\* a 403 `break` the batches after the refused one are never dispatched.
C13_LotesConsecutivos ==
    /\ LotesSonPrefijo
    /\ Len(solicitudes) <= total_lotes(Len(issn_list))
    /\ (pcA = "devuelto" /\ \A k \in 1..Len(solicitudes) : ~Prohibido(k)) =>
          /\ Len(solicitudes) = total_lotes(Len(issn_list))
          /\ LotesUnidos = issn_list
    /\ \A k \in 1..Len(solicitudes) : Prohibido(k) => k = Len(solicitudes)

\* a list of two full batches and an incomplete one was requested whole
C13_Testigo ==
    /\ pcA = "devuelto"
    /\ Len(issn_list) = 2 * batch_size + 1
    /\ Len(solicitudes) = 3
    /\ Len(solicitudes[3].lote) = 1
    /\ LotesUnidos = issn_list

\* C21: a delay elapses between any two consecutive requests: the client
\* sleeps after every request that is followed by another one, whatever
\* the outcome of the request was.
C21_EsperaEntreSolicitudes ==
    \A k \in 1..Len(solicitudes) : k < Len(solicitudes) => esperas[k] > 0

\* how many times the batch that starts at ini was requested
VecesSolicitado(ini) ==
    Cardinality({ k \in 1..Len(solicitudes) : solicitudes[k].inicio = ini })

\* C22: the batch loop always ends and returns a result, and it issues a
\* bounded number of requests: no batch is requested more than twice and
\* there are never more than two requests per batch of the list, whatever
\* the responses are.
C22_TerminaYDevuelve ==
    /\ <>(pcA \in {"devuelto", "rechazado"})
    /\ [](/\ \A ini \in Inicios : VecesSolicitado(ini) <= 2
          /\ Len(solicitudes) <= 2 * total_lotes(Len(issn_list)))

\* a call on three batches returned although every response was a 429
C22_Testigo ==
    /\ pcA = "devuelto"
    /\ Len(solicitudes) = 3
    /\ \A k \in 1..3 : respuestas[k].status = 429
    /\ devuelto = <<>>

-----------------------------------------------------------------------------
(* One session of the dashboard: the uploaded files are read, the key      *)
(* columns are selected, the comparison runs and the report is written.    *)
(*                                                                         *)
(* The comparison itself is the specification Spec; here its outcome is    *)
(* the number of rows each file contributes to the shared collection and   *)
(* to its exclusive collection.  The optional analyses (dates, OpenAlex)   *)
(* and the de-duplication flag are off.  A table of the report is the      *)
(* sequence of the identities <<file, position>> of its rows; the rows of  *)
(* the summary table are <<0, 1>>, <<0, 2>>, ...                           *)

\* files uploaded in one session
MaxSubidos == 3
\* rows a file with shared keys contributes to the shared collection
MaxCompartidos == 1
\* rows one file contributes to its exclusive collection
MaxExclusivos == 1

Modos == {"Rapido", "Avanzado"}

T_Coincidencias == <<"C","o","i","n","c","i","d","e","n","c","i","a","s">>
T_Resumen == <<"R","e","s","u","m","e","n">>
T_Resumen_General == T_Resumen \o <<"_","G","e","n","e","r","a","l">>
T_Exclusivos_ == <<"E","x","c","l","u","s","i","v","o","s","_">>
T_Graficos == <<"G","r","a","f","i","c","o","s">>
T_Hoja == <<"H","o","j","a">>

\* the column sets of the uploaded sheets
ColumnasDeArchivo == {{"ISSN", "Titulo"}, {"ISSN"}, {"Titulo"}}

\* the a-th uploaded file: readable with some columns, or unreadable
Subibles(a) ==
    { [nombre |-> NombreArchivo(a), legible |-> TRUE, columnas |-> c] :
        c \in ColumnasDeArchivo }
    \cup { [nombre |-> NombreArchivo(a), legible |-> FALSE, columnas |-> {}] }

\* the characters in code point order
Alfabeto ==
    <<" ", "-", ".">> \o Digitos \o Mayusculas \o <<"_">> \o Minusculas
Ordinal(c) == CHOOSE k \in 1..Len(Alfabeto) : Alfabeto[k] = c

\* s < t for two Python strings
RECURSIVE MenorTexto(_, _)
MenorTexto(s, t) ==
    IF t = <<>> THEN FALSE
    ELSE IF s = <<>> THEN TRUE
    ELSE IF Head(s) # Head(t) THEN Ordinal(Head(s)) < Ordinal(Head(t))
    ELSE MenorTexto(Tail(s), Tail(t))

\* sorted(...) of a list of distinct strings
RECURSIVE sorted(_)
sorted(l) ==
    IF l = <<>> THEN <<>>
    ELSE LET m == CHOOSE k \in 1..Len(l) :
                     \A h \in 1..Len(l) : h # k => MenorTexto(l[k], l[h])
         IN  <<l[m]>> \o sorted(SubSeq(l, 1, m - 1) \o SubSeq(l, m + 1, Len(l)))

\* str.startswith
startswith(s, p) == Len(p) <= Len(s) /\ SubSeq(s, 1, Len(p)) = p

\* os.path.splitext(nombre)[0]: the name without its last extension
splitext_base(nombre) ==
    LET P == { p \in 1..Len(nombre) : nombre[p] = "." }
        u == IF P = {} THEN 0 ELSE CHOOSE p \in P : \A q \in P : q <= p
    IN  IF u > 1 /\ \E q \in 1..(u - 1) : nombre[q] # "."
        THEN SubSeq(nombre, 1, u - 1) ELSE nombre

\* the characters not allowed in a sheet name
Prohibidos == {":", "\\", "/", "?", "*", "[", "]"}

\* the name with the forbidden characters replaced but never cut
sanitizar_sin_limite(nombre) ==
    LET r == [k \in 1..Len(nombre) |->
                 IF nombre[k] \in Prohibidos THEN " " ELSE nombre[k]]
        t == strip(r)
    IN  IF t = <<>> THEN T_Hoja ELSE t

sanitizar_nombre_hoja(nombre) ==
    LET r == [k \in 1..Len(nombre) |->
                 IF nombre[k] \in Prohibidos THEN " " ELSE nombre[k]]
        t == strip(r)
        u == IF t = <<>> THEN T_Hoja ELSE t
    IN  SubSeq(u, 1, Min(31, Len(u)))

\* str.isalnum for one character
isalnum_c(c) ==
    \/ EsDigito(c)
    \/ \E k \in 1..Len(Mayusculas) : Mayusculas[k] = c \/ Minusculas[k] = c

\* the exclusive sheet name of the variant that writes the workbook itself
nombre_hoja_basico(nombre) ==
    LET limpio == SelectSeq(splitext_base(nombre),
                            LAMBDA c : isalnum_c(c) \/ c \in {" ", "_", "-"})
        hoja == T_Exclusivos_ \o limpio
    IN  SubSeq(hoja, 1, Min(31, Len(hoja)))

\* clave = f"Exclusivos_{os.path.splitext(nombre)[0]}"
clave_exclusivos(nombre) == T_Exclusivos_ \o splitext_base(nombre)

\* the rows file a contributes to the shared collection and to its
\* exclusive collection
FilasCompartidas(a, n) == [j \in 1..n |-> <<a, j>>]
FilasExclusivas(a, n) == [j \in 1..n |-> <<a, MaxCompartidos + j>>]

\* a Python dict as the list of its items in insertion order: d[k] = v
asignar(d, k, v) ==
    IF \E m \in 1..Len(d) : d[m].clave = k
    THEN [m \in 1..Len(d) |->
             IF d[m].clave = k THEN [clave |-> k, df |-> v] ELSE d[m]]
    ELSE Append(d, [clave |-> k, df |-> v])
contiene(d, k) == \E m \in 1..Len(d) : d[m].clave = k
valor_en(d, k) == d[CHOOSE m \in 1..Len(d) : d[m].clave = k].df
claves_de(d) == [m \in 1..Len(d) |-> d[m].clave]

\* df.to_excel(writer, sheet_name=nombre): a new sheet, or the cells of the
\* sheet of that name written over
to_excel(wb, nombre, filas) ==
    IF \E m \in 1..Len(wb) : wb[m].nombre = nombre
    THEN [m \in 1..Len(wb) |->
             IF wb[m].nombre = nombre
             THEN [nombre |-> nombre,
                   filas |-> filas \o SubSeq(wb[m].filas, Len(filas) + 1,
                                             Len(wb[m].filas))]
             ELSE wb[m]]
    ELSE Append(wb, [nombre |-> nombre, filas |-> filas])

\* the order of the sheets of the full report
orden_hojas(d, incluir_graficos) ==
    LET keys == claves_de(d)
        o1 == IF contiene(d, T_Resumen_General)
              THEN <<T_Resumen_General>> ELSE <<>>
        o2 == o1 \o sorted(SelectSeq(keys,
                               LAMBDA k : startswith(k, T_Exclusivos_)))
        o3 == IF contiene(d, T_Coincidencias)
                   /\ T_Coincidencias \notin Elementos(o2)
              THEN Append(o2, T_Coincidencias) ELSE o2
    IN  IF incluir_graficos
        THEN o3 \o SelectSeq(keys, LAMBDA k : k \notin Elementos(o3))
        ELSE keys

\* the loop over the sheets: a None or empty table is skipped
RECURSIVE escribir_hojas(_, _, _)
escribir_hojas(ordered, d, wb) ==
    IF ordered = <<>> THEN wb
    ELSE LET df == valor_en(d, Head(ordered))
         IN  escribir_hojas(Tail(ordered), d,
                 IF df = <<>> THEN wb
                 ELSE to_excel(wb, sanitizar_nombre_hoja(Head(ordered)), df))

crear_excel_descargable(hojas_dict, incluir_graficos) ==
    IF hojas_dict = <<>> THEN <<>>
    ELSE LET wb == escribir_hojas(orden_hojas(hojas_dict, incluir_graficos),
                                  hojas_dict, <<>>)
         IN  IF incluir_graficos /\ contiene(hojas_dict, T_Resumen_General)
             THEN Append(wb, [nombre |-> sanitizar_nombre_hoja(T_Graficos),
                              filas |-> <<>>])
             ELSE wb

\* the rows of a summary table
Conteo(m, v) == [metrica |-> m, tipo |-> "conteo", valor |-> v]
Dato(m) == [metrica |-> m, tipo |-> "texto", valor |-> 0]

\* a summary without the total of records
resumen_general_sin_total(n_arch, n_coinc, n_excl, n_total) ==
    << Conteo("Archivos cargados", n_arch),
       Conteo("Coincidencias", n_coinc),
       Conteo("Exclusivos", n_excl) >>

\* df_resumen of the full report
resumen_general(n_arch, n_coinc, n_excl, n_total) ==
    << Conteo("Archivos cargados", n_arch),
       Conteo("Coincidencias", n_coinc),
       Conteo("Exclusivos", n_excl),
       Conteo("Total registros", n_total) >>

\* the table written to the sheet "Resumen" by the other variant
resumen_basico(n_coinc, n_excl) ==
    << Dato("Fecha de generacion"),
       Dato("Modo de ejecucion"),
       Dato("Archivos comparados"),
       Dato("Columnas clave"),
       Conteo("Coincidencias encontradas", n_coinc),
       Conteo("Registros exclusivos totales", n_excl) >>

FilasResumen(t) == [m \in 1..Len(t) |-> <<0, m>>]

RECURSIVE Suma(_)
Suma(l) == IF l = <<>> THEN 0 ELSE Head(l) + Suma(Tail(l))

\* coincidencias_total of the session: the shared rows, file by file
CoincidenciasSesion(c) ==
    Aplanar([a \in 1..Len(c) |-> FilasCompartidas(a, c[a])])

\* a variant that reads an unreadable file as a table with every column
leer_excel_sin_fallo(archivo) == [columnas |-> {"ISSN", "Titulo"}]

\* leer_excel: the sheet, or pd.DataFrame() (no column, no row) on failure
leer_excel(archivo) ==
    IF archivo.legible THEN [columnas |-> archivo.columnas]
    ELSE [columnas |-> {}]

\* a variant that offers every column of some table
columnas_de_alguna(tablas) ==
    UNION { tablas[a].columnas : a \in 1..Len(tablas) }

\* set.intersection(*(set(df.columns) for df in dfs))
columnas_en_comun(tablas) ==
    { c \in tablas[1].columnas :
        \A a \in 1..Len(tablas) : c \in tablas[a].columnas }

Aviso(nivel, asunto, a) == [nivel |-> nivel, asunto |-> asunto, archivo |-> a]

\* the st.error of every failed read, in upload order
errores_de_lectura(archs) ==
    LET malos == SelectSeq([a \in 1..Len(archs) |-> a],
                           LAMBDA a : ~archs[a].legible)
    IN  [m \in 1..Len(malos) |-> Aviso("error", "lectura", malos[m])]

\* the loop that stores the non-empty exclusive tables in the dictionary
RECURSIVE guardar_exclusivos(_, _, _, _)
guardar_exclusivos(d, noms, e, a) ==
    IF a > Len(noms) THEN d
    ELSE guardar_exclusivos(
             IF e[a] > 0
             THEN asignar(d, clave_exclusivos(noms[a]), FilasExclusivas(a, e[a]))
             ELSE d,
             noms, e, a + 1)

\* the loop that writes one exclusive sheet per file, empty or not
RECURSIVE escribir_exclusivos(_, _, _, _)
escribir_exclusivos(wb, noms, e, a) ==
    IF a > Len(noms) THEN wb
    ELSE escribir_exclusivos(
             to_excel(wb, nombre_hoja_basico(noms[a]), FilasExclusivas(a, e[a])),
             noms, e, a + 1)

NombresDe(archs) == [a \in 1..Len(archs) |-> archs[a].nombre]

InitS ==
    /\ guion \in Variantes
    /\ modo \in Modos
    /\ \E k \in 2..MaxSubidos :
          subidos \in { f \in [1..k -> UNION { Subibles(a) : a \in 1..k }] :
                          \A a \in 1..k : f[a] \in Subibles(a) }
    /\ leidos = <<>> /\ mensajes = <<>>
    /\ columnas_comunes = {} /\ columnas_elegidas = <<>>
    /\ n_coincidencias = <<>> /\ n_exclusivos = <<>>
    /\ resultados_completos = <<>> /\ df_resumen = <<>> /\ libro = <<>>
    /\ pcS = "subido"
    /\ ReposoN /\ ReposoK /\ ReposoR /\ ReposoA
    /\ ReposoF /\ ReposoH

\* dfs = [leer_excel(a) for a in archivos]
LeerArchivos ==
    /\ pcS = "subido"
    /\ leidos' = [a \in 1..Len(subidos) |-> leer_excel(subidos[a])]
    /\ mensajes' = errores_de_lectura(subidos)
    /\ pcS' = "leido"
    /\ UNCHANGED <<guion, modo, subidos, columnas_comunes, columnas_elegidas,
                   n_coincidencias, n_exclusivos, resultados_completos,
                   df_resumen, libro, varsN, varsK, varsR, varsA,
                   varsF, varsH>>

\* `if columnas_comunes:` fails: the message, and nothing else happens
SinColumnasComunes ==
    /\ pcS = "leido"
    /\ columnas_en_comun(leidos) = {}
    /\ columnas_comunes' = {}
    /\ mensajes' = Append(mensajes,
                          Aviso(IF guion = "completo" THEN "error"
                                ELSE "warning", "columnas", 0))
    /\ pcS' = "omitido"
    /\ UNCHANGED <<guion, modo, subidos, leidos, columnas_elegidas,
                   n_coincidencias, n_exclusivos, resultados_completos,
                   df_resumen, libro, varsN, varsK, varsR, varsA,
                   varsF, varsH>>

\* st.multiselect over the common columns; `if columnas_clave:`
ElegirColumnas ==
    /\ pcS = "leido"
    /\ columnas_en_comun(leidos) # {}
    /\ columnas_comunes' = columnas_en_comun(leidos)
    /\ \E sel \in ListasDe(columnas_en_comun(leidos)) :
          /\ columnas_elegidas' = sel
          /\ pcS' = IF sel = <<>> THEN "sin_seleccion" ELSE "seleccionado"
    /\ UNCHANGED <<guion, modo, subidos, leidos, mensajes, n_coincidencias,
                   n_exclusivos, resultados_completos, df_resumen, libro,
                   varsN, varsK, varsR, varsA,
                   varsF, varsH>>

\* the comparison (specification Spec): a shared key is in two files or more
Comparar ==
    /\ pcS = "seleccionado"
    /\ \E c \in [1..Len(leidos) -> {0, MaxCompartidos}],
          e \in [1..Len(leidos) -> 0..MaxExclusivos] :
          /\ Cardinality({ a \in 1..Len(leidos) : c[a] > 0 }) # 1
          /\ n_coincidencias' = c
          /\ n_exclusivos' = e
    /\ pcS' = "comparado"
    /\ UNCHANGED <<guion, modo, subidos, leidos, mensajes, columnas_comunes,
                   columnas_elegidas, resultados_completos, df_resumen, libro,
                   varsN, varsK, varsR, varsA,
                   varsF, varsH>>

\* src/2.py: the dictionary of the full report is filled
ReunirResultados ==
    /\ pcS = "comparado" /\ guion = "completo"
    /\ LET res == resumen_general(Len(subidos), Suma(n_coincidencias),
                                  Suma(n_exclusivos),
                                  Suma(n_coincidencias) + Suma(n_exclusivos))
           d1 == asignar(<<>>, T_Coincidencias,
                         CoincidenciasSesion(n_coincidencias))
           d2 == asignar(d1, T_Resumen_General, FilasResumen(res))
       IN  /\ df_resumen' = res
           /\ resultados_completos' =
                 IF modo = "Avanzado" /\ Suma(n_exclusivos) > 0
                 THEN guardar_exclusivos(d2, NombresDe(subidos),
                                         n_exclusivos, 1)
                 ELSE d2
    /\ pcS' = "reunido"
    /\ UNCHANGED <<guion, modo, subidos, leidos, mensajes, columnas_comunes,
                   columnas_elegidas, n_coincidencias, n_exclusivos, libro,
                   varsN, varsK, varsR, varsA,
                   varsF, varsH>>

\* src/2.py: `if resultados_completos:` the full report is written
DescargarCompleto ==
    /\ pcS = "reunido" /\ resultados_completos # <<>>
    /\ libro' = crear_excel_descargable(resultados_completos, TRUE)
    /\ pcS' = "descargado"
    /\ UNCHANGED <<guion, modo, subidos, leidos, mensajes, columnas_comunes,
                   columnas_elegidas, n_coincidencias, n_exclusivos,
                   resultados_completos, df_resumen, varsN, varsK, varsR,
                   varsA,
                   varsF, varsH>>

\* src/dashboard_comparar_excel.py: the workbook is written sheet by sheet
DescargarBasico ==
    /\ pcS = "comparado" /\ guion = "basico"
    /\ LET res == resumen_basico(Suma(n_coincidencias), Suma(n_exclusivos))
           wb1 == to_excel(<<>>, T_Resumen, FilasResumen(res))
           wb2 == to_excel(wb1, T_Coincidencias,
                           CoincidenciasSesion(n_coincidencias))
       IN  /\ df_resumen' = res
           /\ libro' = escribir_exclusivos(wb2, NombresDe(subidos),
                                           n_exclusivos, 1)
    /\ pcS' = "descargado"
    /\ UNCHANGED <<guion, modo, subidos, leidos, mensajes, columnas_comunes,
                   columnas_elegidas, n_coincidencias, n_exclusivos,
                   resultados_completos, varsN, varsK, varsR, varsA,
                   varsF, varsH>>

NextS ==
    \/ LeerArchivos
    \/ SinColumnasComunes
    \/ ElegirColumnas
    \/ Comparar
    \/ ReunirResultados
    \/ DescargarCompleto
    \/ DescargarBasico

SpecSesion == InitS /\ [][NextS]_vars

-----------------------------------------------------------------------------
(* Properties of the session (SpecSesion).                                 *)

\* the metric names under which a summary gives each count
M_Archivos == {"Archivos cargados"}
M_Coincidencias == {"Coincidencias", "Coincidencias encontradas"}
M_Exclusivos == {"Exclusivos", "Registros exclusivos totales"}
M_Total == {"Total registros"}

\* the summary table gives the count v under one of the names M
TieneConteo(M, v) ==
    \E m \in 1..Len(df_resumen) :
        /\ df_resumen[m].metrica \in M
        /\ df_resumen[m].tipo = "conteo"
        /\ df_resumen[m].valor = v

\* the workbook has a sheet that holds the summary table
HojaResumen ==
    /\ df_resumen # <<>>
    /\ \E m \in 1..Len(libro) :
          /\ libro[m].nombre \in {T_Resumen_General, T_Resumen}
          /\ libro[m].filas = FilasResumen(df_resumen)

TotalSesion == Suma(n_coincidencias) + Suma(n_exclusivos)

\* C16 (as stated): every full report has a summary sheet that gives the
\* four counts: sources loaded, shared, exclusive and total records.
C16_ResumenCuatroConteos ==
    pcS = "descargado" =>
        /\ HojaResumen
        /\ TieneConteo(M_Archivos, Len(subidos))
        /\ TieneConteo(M_Coincidencias, Suma(n_coincidencias))
        /\ TieneConteo(M_Exclusivos, Suma(n_exclusivos))
        /\ TieneConteo(M_Total, TotalSesion)

\* C16 (amended): every full report has a summary sheet with the shared
\* count and the exclusive count; the report of src/2.py gives the four
\* counts, the report of src/dashboard_comparar_excel.py gives no count of
\* the sources (it lists their names) and no total of records.
C16_ResumenSegunVariante ==
    pcS = "descargado" =>
        /\ HojaResumen
        /\ TieneConteo(M_Coincidencias, Suma(n_coincidencias))
        /\ TieneConteo(M_Exclusivos, Suma(n_exclusivos))
        /\ guion = "completo" =>
              /\ TieneConteo(M_Archivos, Len(subidos))
              /\ TieneConteo(M_Total, TotalSesion)
        /\ guion = "basico" =>
              \A m \in 1..Len(df_resumen) :
                  df_resumen[m].tipo = "conteo" =>
                      df_resumen[m].metrica \in M_Coincidencias \cup M_Exclusivos

\* a full report of a run whose partitions are all empty
C16_Testigo ==
    /\ pcS = "descargado" /\ guion = "completo"
    /\ TotalSesion = 0
    /\ HojaResumen
    /\ TieneConteo(M_Total, 0)

\* the name of the exclusive sheet of file a
HojaExclusivos(a) ==
    IF guion = "completo"
    THEN sanitizar_nombre_hoja(clave_exclusivos(subidos[a].nombre))
    ELSE nombre_hoja_basico(subidos[a].nombre)

\* C17: the full report has one shared sheet and, for each file, an
\* exclusive sheet with the exclusive rows of the file iff the file has
\* exclusive rows, in both execution modes, the shared collection empty or
\* not.
C17_HojasPorParticion ==
    pcS = "descargado" =>
        /\ \E m \in 1..Len(libro) : libro[m].nombre = T_Coincidencias
        /\ \A a \in 1..Len(subidos) :
              (\E m \in 1..Len(libro) :
                  /\ libro[m].nombre = HojaExclusivos(a)
                  /\ libro[m].filas = FilasExclusivas(a, n_exclusivos[a]))
                 <=> n_exclusivos[a] > 0

\* the columns common to the files that were read
ComunesLegibles ==
    { c \in UNION ColumnasDeArchivo :
        \A a \in 1..Len(subidos) :
            subidos[a].legible => c \in subidos[a].columnas }

\* C19: a failed read is reported for its file, the file gives an empty
\* table with empty partitions, and the comparison of the tables that were
\* read still takes place.
C19_LecturaFallidaNoAborta ==
    pcS # "subido" =>
        \A a \in 1..Len(subidos) :
            ~subidos[a].legible =>
                /\ \E m \in 1..Len(mensajes) :
                      mensajes[m] = Aviso("error", "lectura", a)
                /\ leidos[a].columnas = {}
                /\ n_coincidencias # <<>> =>
                      n_coincidencias[a] = 0 /\ n_exclusivos[a] = 0
                /\ pcS = "omitido" =>
                      \/ \A b \in 1..Len(subidos) : ~subidos[b].legible
                      \/ ComunesLegibles = {}

\* the columns every table has
EnTodas ==
    { c \in UNION ColumnasDeArchivo :
        \A a \in 1..Len(leidos) : c \in leidos[a].columnas }

\* C20: the comparison runs only with a non-empty selection that is a
\* subset of the columns common to all tables; without a common column a
\* message is shown and the step is skipped; without a selected column the
\* step is skipped and no report is produced.
C20_SoloConSeleccionValida ==
    pcS \notin {"subido", "leido"} =>
        /\ pcS \in {"seleccionado", "comparado", "reunido", "descargado"} =>
              /\ columnas_elegidas # <<>>
              /\ Elementos(columnas_elegidas) \subseteq EnTodas
        /\ EnTodas = {} =>
              /\ pcS = "omitido"
              /\ \E m \in 1..Len(mensajes) : mensajes[m].asunto = "columnas"
        /\ (EnTodas # {} /\ columnas_elegidas = <<>>) => pcS = "sin_seleccion"
        /\ pcS \in {"omitido", "sin_seleccion"} =>
              /\ n_coincidencias = <<>> /\ n_exclusivos = <<>>
              /\ resultados_completos = <<>> /\ libro = <<>>
        /\ libro # <<>> => pcS = "descargado"

\* three readable tables without a common column: the step was skipped
C20_Testigo ==
    /\ pcS = "omitido"
    /\ Len(subidos) = 3
    /\ \A a \in 1..3 : subidos[a].legible
    /\ libro = <<>>

-----------------------------------------------------------------------------
(* procesar_fechas: the column 'Rango Calculado' of one fila.                 *)

\* a datetime / pd.Timestamp cell whose year is y
Fecha(y) == [t |-> "fecha", s |-> <<>>, n |-> y]

\* the marker of a column the table does not have
SinColumna == [t |-> "ausente", s |-> <<>>, n |-> 0]

ColumnasRequeridas == {"Fecha Inicio", "Fecha Termino", "Retraso"}

\* re.search(r"(19|20)\d{2}", s): the positions where the pattern matches
PosicionesAnio(s) ==
    { p \in 1..(Len(s) - 3) :
        /\ \/ s[p] = "1" /\ s[p + 1] = "9"
           \/ s[p] = "2" /\ s[p + 1] = "0"
        /\ EsDigito(s[p + 2]) /\ EsDigito(s[p + 3]) }

\* obtener_año(valor): None for a missing cell, .year of a datetime, else the
\* first 19xx / 20xx found in the text of the cell
obtener_anio(v) ==
    IF isna(v) THEN None
    ELSE IF v.t = "fecha" THEN Entero(v.n)
    ELSE LET P == PosicionesAnio(str(v))
         IN  IF P = {} THEN None
             ELSE LET p == CHOOSE q \in P : \A r \in P : q <= r
                  IN  Entero(ValorNumerico(SubSeq(str(v), p, p + 3)))

\* int(float(x)) of a cell written as an unsigned decimal: ok is FALSE where
\* float() raises
int_float(v) ==
    IF v.t = "int" THEN [ok |-> TRUE, n |-> v.n]
    ELSE LET t == strip(str(v))
             puntos == { p \in 1..Len(t) : t[p] = "." }
         IN  IF puntos = {}
             THEN [ok |-> isdigit(t),
                   n |-> IF isdigit(t) THEN ValorNumerico(t) ELSE 0]
             ELSE IF Cardinality(puntos) = 1
             THEN LET p == CHOOSE q \in puntos : TRUE
                      e == SubSeq(t, 1, p - 1)
                      f == SubSeq(t, p + 1, Len(t))
                      bien == /\ e = <<>> \/ isdigit(e)
                              /\ f = <<>> \/ isdigit(f)
                              /\ e # <<>> \/ f # <<>>
                  IN  [ok |-> bien, n |-> IF bien THEN ValorNumerico(e) ELSE 0]
             ELSE [ok |-> FALSE, n |-> 0]

\* the delay left in months, not converted to years
retraso_en_meses(v) ==
    IF ~isna(v) /\ strip(str(v)) # <<>>
    THEN IF int_float(v).ok THEN int_float(v).n ELSE 0
    ELSE 0

\* retraso of calcular_rango: int(float(Retraso)) // 12, and 0 when the cell
\* is missing, blank or float() raises
retraso(v) ==
    IF ~isna(v) /\ strip(str(v)) # <<>>
    THEN IF int_float(v).ok THEN int_float(v).n \div 12 ELSE 0
    ELSE 0

\* calcular_rango(row)
calcular_rango(fila, actual) ==
    LET anio_inicio == obtener_anio(fila["Fecha Inicio"])
        anio_termino == obtener_anio(fila["Fecha Termino"])
        anio_final == IF truthy(anio_termino) THEN anio_termino.n ELSE actual
        anio_final_ajustado == anio_final - retraso(fila["Retraso"])
    IN  IF truthy(anio_inicio)
        THEN Texto(str_int(anio_inicio.n) \o <<" ", "-", " ">>
                   \o str_int(anio_final_ajustado))
        ELSE None

\* procesar_fechas(df), for one fila: the value of 'Rango Calculado', or
\* SinColumna where the column is not created
procesar_fechas(cols, fila, actual) ==
    IF "Fecha Rango" \in cols THEN fila["Fecha Rango"]
    ELSE IF ColumnasRequeridas \subseteq cols
         THEN calcular_rango(fila, actual)
         ELSE SinColumna

\* --- inputs ---------------------------------------------------------------
AniosDados == {1999, 2020}
MesesDados == {0, 6, 12, 30}
AniosActuales == {2026, 2027}

\* the ways a date of year y is held in a cell
EscriturasFecha(y) ==
    { Fecha(y),
      Texto(<<"0","1","/","1","5","/">> \o str_int(y)),
      Texto(<<"1","9","/","1","2","/">> \o str_int(y)),
      Texto(str_int(y) \o <<"-","0","1","-","1","5">>),
      Entero(y) }

\* cells that hold no year
SinAnio == { NaN, Texto(<<>>), Texto(<<" ">>), Texto(<<"s","/","f">>) }

\* the ways a delay of m months is held in a cell
EscriturasRetraso(m) ==
    { Entero(m), Texto(str_int(m)), Texto(str_int(m) \o <<".","9">>),
      Texto(<<" ">> \o str_int(m)) }

\* cells that hold no delay: missing, blank, or text float() rejects
SinRetraso == { NaN, Texto(<<>>), Texto(<<" ">>), Texto(<<"a","b","c">>) }

ColumnasPosibles ==
    { ColumnasRequeridas,
      ColumnasRequeridas \cup {"Fecha Rango"},
      {"Fecha Inicio", "Retraso"} }

CeldasDe(y) == IF y = 0 THEN SinAnio ELSE EscriturasFecha(y)

InitF ==
    /\ columnas_fecha \in ColumnasPosibles
    /\ anio_actual \in AniosActuales
    /\ \E yi \in AniosDados \cup {0}, yt \in AniosDados \cup {0},
          m \in MesesDados \cup {-1} :
          /\ dado = [inicio |-> yi, termino |-> yt, meses |-> m]
          /\ \E ci \in CeldasDe(yi), ct \in CeldasDe(yt),
                cr \in (IF m = -1 THEN SinRetraso ELSE EscriturasRetraso(m)) :
                fila_fecha = [c \in ColumnasRequeridas \cup {"Fecha Rango"} |->
                                CASE c = "Fecha Inicio" -> ci
                                  [] c = "Fecha Termino" -> ct
                                  [] c = "Retraso" -> cr
                                  [] OTHER -> Texto(<<"2","0","0","1">>)]
    /\ rango_calculado = None
    /\ pcF = "entrada"
    /\ ReposoN /\ ReposoK /\ ReposoR /\ ReposoA /\ ReposoS /\ ReposoH

ProcesarFechas ==
    /\ pcF = "entrada"
    /\ rango_calculado' = procesar_fechas(columnas_fecha, fila_fecha,
                                          anio_actual)
    /\ pcF' = "procesado"
    /\ UNCHANGED <<columnas_fecha, fila_fecha, anio_actual, dado,
                   varsN, varsK, varsR, varsA, varsS, varsH>>

NextF == ProcesarFechas

SpecFechas == InitF /\ [][NextF]_vars

\* the end year of the row: the year given in 'Fecha Termino', the current
\* year when it holds none
AnioFinalDado ==
    IF dado.termino = 0 THEN anio_actual ELSE dado.termino

MesesDeRetraso == IF dado.meses = -1 THEN 0 ELSE dado.meses

\* C23: with 'Fecha Inicio', 'Fecha Termino' and 'Retraso' present and no
\* 'Fecha Rango', a row with a start year gets the range
\* "<start year> - <end year - delay in whole years>", the end year being the
\* current year when 'Fecha Termino' holds none and the delay 0 when 'Retraso'
\* is empty or unparseable; a row without a start year gets no range
C23_RangoCalculado ==
    (pcF = "procesado" /\ columnas_fecha = ColumnasRequeridas) =>
        IF dado.inicio = 0
        THEN rango_calculado = None
        ELSE rango_calculado =
                Texto(str_int(dado.inicio) \o <<" ", "-", " ">>
                      \o str_int(AnioFinalDado - (MesesDeRetraso \div 12)))

\* a row 1999 .. with no end date and a delay of 30 months: two whole years
\* are taken from the current year
C23_Testigo ==
    /\ pcF = "procesado" /\ columnas_fecha = ColumnasRequeridas
    /\ dado = [inicio |-> 1999, termino |-> 0, meses |-> 30]
    /\ fila_fecha["Retraso"] = Texto(<<"3","0",".","9">>)
    /\ anio_actual = 2026
    /\ rango_calculado =
          Texto(<<"1","9","9","9"," ","-"," ","2","0","2","4">>)

-----------------------------------------------------------------------------
(* sanitizar_nombre_hoja applied to one logical name.                        *)

MaxNombre == 33

RECURSIVE Repetir(_, _)
Repetir(c, n) == IF n = 0 THEN <<>> ELSE <<c>> \o Repetir(c, n - 1)

\* if not isinstance(nombre, str): nombre = str(nombre)
texto_de(v) == IF v.t = "str" THEN v.s ELSE str(v)

Bordes == { <<>>, <<":">>, <<" ">>, <<"[", "]">>, <<"x", "\\">> }
Rellenos == { "a", "/", " ", "?" }

\* logical names: text up to MaxNombre + 4 characters long, with forbidden
\* characters and blanks at the ends and inside, and values that are not text
NombresLogicos ==
    { Texto(pre \o Repetir(c, n) \o suf) :
        pre \in Bordes, suf \in Bordes, c \in Rellenos, n \in 0..MaxNombre }
    \cup { Entero(0), Entero(2024), None, NaN }

InitH ==
    /\ nombre_logico \in NombresLogicos
    /\ nombre_hoja = <<>>
    /\ pcH = "entrada"
    /\ ReposoN /\ ReposoK /\ ReposoR /\ ReposoA /\ ReposoS /\ ReposoF

Sanitizar ==
    /\ pcH = "entrada"
    /\ nombre_hoja' = sanitizar_nombre_hoja(texto_de(nombre_logico))
    /\ pcH' = "saneado"
    /\ UNCHANGED <<nombre_logico, varsN, varsK, varsR, varsA, varsS, varsF>>

NextH == Sanitizar

SpecHoja == InitH /\ [][NextH]_vars

\* nothing usable remains: every character is forbidden or blank
NadaUtil(s) ==
    \A k \in 1..Len(s) : s[k] \in Prohibidos \/ s[k] \in Blancos

\* C24: the sheet name returned is never empty, has at most 31 characters
\* and none of the characters : \ / ? * [ ]; it is "Hoja" when nothing
\* usable remains of the input
C24_NombreDeHojaValido ==
    pcH = "saneado" =>
        /\ nombre_hoja # <<>>
        /\ Len(nombre_hoja) <= 31
        /\ \A k \in 1..Len(nombre_hoja) : nombre_hoja[k] \notin Prohibidos
        /\ NadaUtil(texto_de(nombre_logico)) => nombre_hoja = T_Hoja

\* a name longer than 31 characters that holds forbidden characters
C24_Testigo ==
    /\ pcH = "saneado"
    /\ Len(texto_de(nombre_logico)) > 31
    /\ \E k \in 1..Len(texto_de(nombre_logico)) :
          texto_de(nombre_logico)[k] \in Prohibidos
    /\ Len(nombre_hoja) = 31

-----------------------------------------------------------------------------
(* The export of a session whose uploaded files have any names.             *)

T_A == <<"A">>
T_B == <<"B">>
T_xlsx == <<".", "x", "l", "s", "x">>
T_xls == <<".", "x", "l", "s">>

\* file names: two that differ only in the extension, and two that differ
\* only after the 31st character of the sheet name made from them
NombresInforme ==
    { T_A \o T_xlsx, T_A \o T_xls, T_B \o T_xlsx,
      Repetir("n", 25) \o <<"1">> \o T_xlsx,
      Repetir("n", 25) \o <<"2">> \o T_xlsx }

\* two readable files of different names, the key column chosen
InitInforme ==
    /\ guion \in Variantes
    /\ modo \in Modos
    /\ \E n1 \in NombresInforme :
       \E n2 \in NombresInforme \ {n1} :
          subidos = << [nombre |-> n1, legible |-> TRUE, columnas |-> {"ISSN"}],
                       [nombre |-> n2, legible |-> TRUE, columnas |-> {"ISSN"}] >>
    /\ leidos = [a \in 1..2 |->
                   leer_excel([nombre |-> subidos[a].nombre, legible |-> TRUE,
                               columnas |-> {"ISSN"}])]
    /\ mensajes = <<>>
    /\ columnas_comunes = {"ISSN"} /\ columnas_elegidas = <<"ISSN">>
    /\ n_coincidencias = <<>> /\ n_exclusivos = <<>>
    /\ resultados_completos = <<>> /\ df_resumen = <<>> /\ libro = <<>>
    /\ pcS = "seleccionado"
    /\ ReposoN /\ ReposoK /\ ReposoR /\ ReposoA /\ ReposoF /\ ReposoH

NextInforme ==
    \/ Comparar
    \/ ReunirResultados
    \/ DescargarCompleto
    \/ DescargarBasico

SpecInforme == InitInforme /\ [][NextInforme]_vars

\* the export writes the exclusive collections
ExportaExclusivos == guion = "basico" \/ modo = "Avanzado"

\* C25: for any two different uploaded files with exclusive rows, the export
\* holds two separate exclusive sheets, each with exactly the exclusive rows
\* of its file
C25_HojasExclusivasSeparadas ==
    (pcS = "descargado" /\ ExportaExclusivos) =>
        \A a \in 1..Len(subidos), b \in 1..Len(subidos) :
            (a # b /\ n_exclusivos[a] > 0 /\ n_exclusivos[b] > 0) =>
                \E m \in 1..Len(libro), h \in 1..Len(libro) :
                    /\ m # h
                    /\ libro[m].nombre = HojaExclusivos(a)
                    /\ libro[m].filas = FilasExclusivas(a, n_exclusivos[a])
                    /\ libro[h].nombre = HojaExclusivos(b)
                    /\ libro[h].filas = FilasExclusivas(b, n_exclusivos[b])

-----------------------------------------------------------------------------
(* The comparison of two uploaded files whose names may be equal: the file   *)
(* uploader takes any two files, also two of the same name.                  *)

InitNombres ==
    /\ \E tablas \in ListasTablas(2, MaxRegistros) :
          archivos =
             [a \in 1..2 |->
                [j \in 1..Len(tablas[a]) |->
                   [origen |-> a, fila |-> j, celdas |-> tablas[a][j],
                    clave |-> None]]]
    /\ nombres \in [1..2 -> {NombreArchivo(1), NombreArchivo(2)}]
    /\ dfs = archivos
    /\ columnas_clave = <<>>
    /\ normalizar_datos = TRUE
    /\ limpiar_duplicados_final = FALSE
    /\ conteo = <<>>
    /\ coincidencias_por_archivo = <<>>
    /\ exclusivos_por_archivo = <<>>
    /\ coincidencias_total = <<>>
    /\ resumen = <<>>
    /\ pc = "cargado"
    /\ ReposoN /\ ReposoK /\ ReposoA /\ ReposoS /\ ReposoF /\ ReposoH

SpecNombres == InitNombres /\ [][Next]_vars

\* the key of a row of the shared collection
ClaveDe(r) ==
    (CHOOSE x \in Elementos(dfs[r.origen]) : x.fila = r.fila).clave

\* the source tags on the rows of the shared collection that carry key k
EtiquetasDe(k) ==
    { coincidencias_total[j].Archivo :
        j \in { h \in 1..Len(coincidencias_total) :
                  ClaveDe(coincidencias_total[h]) = k } }

\* C26: for every key in the shared collection, the number of distinct
\* source tags among its records equals the number of distinct source
\* tables that contain the key, hence is at least 2, with the flag on or
\* off and for any file names
C26_EtiquetasIgualFuentes ==
    pc \in {"consolidado", "terminado"} =>
        \A k \in claves_comunes(conteo) :
            /\ Cardinality(EtiquetasDe(k)) = conteo[k]
            /\ Cardinality(EtiquetasDe(k)) = Cardinality(FuentesDe(k))
            /\ Cardinality(EtiquetasDe(k)) >= 2

-----------------------------------------------------------------------------
(* The counts of the summary.                                                *)

\* the uploaded records whose derived key is not null
ConClave ==
    { q \in Posiciones(archivos) :
        generar_clave_prioritaria(
            fillna(archivos[q[1]][q[2]].celdas, columnas_clave),
            columnas_clave, normalizar_datos) # None }

\* C27: in every run the summary has 'Coincidencias' + 'Exclusivos' =
\* 'Total registros' with the de-duplication flag off and
\* 'Coincidencias' + 'Exclusivos' <= 'Total registros' with it on, and
\* 'Total registros' is the number of records that survive the dropping of
\* null keys
C27_ConteosConsistentes ==
    pc = "terminado" =>
        /\ ~limpiar_duplicados_final =>
              resumen.coincidencias + resumen.exclusivos
                 = resumen.total_registros
        /\ limpiar_duplicados_final =>
              resumen.coincidencias + resumen.exclusivos
                 <= resumen.total_registros
        /\ resumen.total_registros = Cardinality(ConClave)

\* a run with the flag on in which de-duplication removed a shared record:
\* the two counts fall short of the total
C27_Testigo ==
    /\ pc = "terminado" /\ limpiar_duplicados_final
    /\ resumen.coincidencias > 0
    /\ resumen.coincidencias + resumen.exclusivos < resumen.total_registros

-----------------------------------------------------------------------------
(* The null key and the normalisation flag.                                  *)

\* the key of the same row and columns with the flag set the other way
ClaveConOtraBandera ==
    generar_clave_prioritaria(row, columnas, ~normalizar)

\* C28: generar_clave_prioritaria returns null with normalizar=True if and
\* only if it returns null with normalizar=False, for every row and every
\* list of selected columns
C28_NuloSinImportarBandera ==
    pcK = "clave" => ((clave = None) <=> (ClaveConOtraBandera = None))

-----------------------------------------------------------------------------
(* normalizar_valor applied to its own result.                               *)

\* the value holds no whitespace other than spaces
SoloEspacios(v) ==
    \A k \in 1..Len(str(v)) : str(v)[k] \notin (Blancos \ {" "})

\* C29 as stated: normalizar_valor(normalizar_valor(v)) = normalizar_valor(v)
\* for every value v, tabs included
C29_Idempotente ==
    pcN = "normalizado" => normalizar_valor(normalizado) = normalizado

\* C29: normalizar_valor(normalizar_valor(v)) = normalizar_valor(v) for
\* every value v that holds no whitespace other than spaces; a tab or a
\* newline that follows a removed period or space at an end of the text is
\* stripped only by the second application
C29_IdempotenteSinTabuladores ==
    (pcN = "normalizado" /\ SoloEspacios(valor)) =>
        normalizar_valor(normalizado) = normalizado

\* an 8-digit code written with two separators, normalised to its canonical
\* form, which a second application leaves alone
C29_Testigo ==
    /\ pcN = "normalizado"
    /\ valor.t = "str" /\ Len(valor.s) = 10 /\ SoloEspacios(valor)
    /\ \E k \in 1..Len(valor.s) : valor.s[k] = "."
    /\ Len(normalizado.s) = 9 /\ normalizado.s[5] = "-"
    /\ normalizar_valor(normalizado) = normalizado

-----------------------------------------------------------------------------
(* The same files uploaded in another order.                                 *)

\* the orders in which the uploaded files can be given
OrdenesDeSubida == Permutaciones([a \in 1..Len(archivos) |-> a])

\* the keyed tables of the run over the files in the order o
TablasEnOrden(o) ==
    [a \in 1..Len(o) |->
        derivar_claves(archivos[o[a]], columnas_clave, normalizar_datos)]

\* the shared and the exclusive collection of each file in that run
CompartidosEnOrden(o) ==
    [a \in 1..Len(o) |->
        con_archivo(
            SelectSeq(TablasEnOrden(o)[a],
                      LAMBDA r : r.clave
                                   \in claves_comunes(contar_claves(TablasEnOrden(o)))),
            nombres[o[a]])]
ExclusivosEnOrden(o) ==
    [a \in 1..Len(o) |->
        drop_clave(con_archivo(
            SelectSeq(TablasEnOrden(o)[a],
                      LAMBDA r : r.clave
                                   \in claves_exclusivas(contar_claves(TablasEnOrden(o)))),
            nombres[o[a]]))]

\* C30: for any permutation of the uploaded tables, each record is
\* classified the same way, and the shared records and the exclusive
\* collection of each source are the same; only the order of the sources
\* in the shared collection changes
C30_IndependienteDelOrden ==
    pc = "terminado" =>
        \A o \in OrdenesDeSubida :
            /\ \A a \in 1..Len(o) :
                  /\ ExclusivosEnOrden(o)[a] = exclusivos_por_archivo[o[a]]
                  /\ CompartidosEnOrden(o)[a] = coincidencias_por_archivo[o[a]]
            /\ ~limpiar_duplicados_final =>
                  \A r \in Elementos(coincidencias_total) :
                      Veces(drop_clave(Aplanar(CompartidosEnOrden(o))), Id(r))
                         = Veces(coincidencias_total, Id(r))

\* three files, a key shared by the first and the last and a record
\* exclusive to the second
C30_Testigo ==
    /\ pc = "terminado"
    /\ Len(archivos) = 3
    /\ coincidencias_por_archivo[1] # <<>>
    /\ coincidencias_por_archivo[3] # <<>>
    /\ coincidencias_por_archivo[2] = <<>>
    /\ exclusivos_por_archivo[2] # <<>>

=============================================================================
